---- MODULE Spec2Model ----
(***************************************************************************)
(* Job orchestration pipeline of the LCA analysis backend:                 *)
(* run_pipeline (orchestrator/graph.py) drives the LangGraph nodes         *)
(* routing -> agent_processing -> normalization -> validation ->           *)
(* synthesis -> output over the AgentState, dispatch_file                  *)
(* (orchestrator/dispatcher.py) runs one extraction call per file, and     *)
(* force_include_quarantined (main.py) starts a replay of the job.         *)
(***************************************************************************)
EXTENDS Integers, Sequences, FiniteSets, TLC

\* ------------------------------------------------------------------ bounds
\* at most this many files in the job
MaxFiles == 2
\* at most this many runs of the job (the first run plus replays)
MaxRuns == 2
\* at most this many lines in a content handed to the normalizer
MaxLines == 3
\* at most this many passes of the normalizer over one output
MaxPasses == 2
\* max_retries of a retry_with_backoff decorator is at most this
MaxRetries == 2
\* at most this many log entries are appended while the pipeline runs
MaxLogEntries == 3

\* -------------------------------------------------------- program constants
\* str(e)[:500] in run_pipeline's except branch
ErrorTruncation == 500

VARIABLES
    job_files,                  \* the files registered for the job at ingestion
    rule_severities,            \* severities the rule track tags a failed check with
    runs,                       \* number of run_pipeline invocations started so far
    pc,                         \* position of run_pipeline: idle, running, done, failed
    raised,                     \* the current run re-raised an exception to its caller
    force_include_quarantined,  \* AgentState.force_include_quarantined
    file_tasks,                 \* AgentState.file_tasks
    task_shape,                 \* shape of the file_tasks passed: dicts or FileMetadata
    call,                       \* position of each dispatch_file coroutine
    gathered,                   \* asyncio.gather's slot per task
    completion_order,           \* the tasks in the order their calls ended (until normalized)
    file_records,               \* per file, the status persisted in its record
    parsed_outputs,             \* AgentState.parsed_outputs
    errors,                     \* AgentState.errors
    normalized_outputs,         \* AgentState.normalized_outputs
    validation_reports,         \* AgentState.validation_reports
    merged_status,              \* per report, the merge rule's status before quarantine
    semantic_answers,           \* per report, what the model behind the semantic track answered
    quarantined_file_ids,       \* AgentState.quarantined_file_ids
    synthesis_result,           \* AgentState.synthesis_result
    synthesis_inputs,           \* the list synthesis_node handed to run_synthesis
    synthesis_calls,            \* the calls of the synthesis stages made so far, in order
    markdown_report,            \* AgentState.markdown_report
    current_phase,              \* AgentState.current_phase
    progress,                   \* AgentState.progress
    phase_log,                  \* the values current_phase has taken in this run, in order
    stage_calls,                \* route_file / dispatch_file / validate calls made by this run
    analysis_record,            \* persisted per-job record (analyses table)
    marked_completed,           \* this run wrote status COMPLETED to the analysis record
    failure_persisted,          \* this run wrote status FAILED to the analysis record
    prev,                       \* whether the job ran before, and the files that run quarantined
                                \* when its synthesis received no input
    retry_call,                 \* one call of a function wrapped by retry_with_backoff
    log_stream,                 \* a job's log buffer and the event generator reading it
    job_runs                    \* two run_pipeline tasks of one job and what they persist

vars == << job_files, rule_severities, runs, pc, raised, force_include_quarantined, file_tasks,
           task_shape, call, gathered, completion_order, file_records, parsed_outputs, errors,
           normalized_outputs, validation_reports, merged_status, semantic_answers,
           quarantined_file_ids, synthesis_result, synthesis_inputs, synthesis_calls,
           markdown_report, current_phase, progress, phase_log, stage_calls, analysis_record,
           marked_completed, failure_persisted, prev, retry_call, log_stream, job_runs >>

\* the variables of the calls studied on their own
unit_vars == << retry_call, log_stream, job_runs >>

\* ------------------------------------------------------------- sequences
Range(s) == { s[i] : i \in 1..Len(s) }

Min(a, b) == IF a < b THEN a ELSE b

\* ------------------------------------------------------------- enums
FileTypeValues ==
    { "EXCEL", "CSV", "PDF", "IMAGE", "MINDMAP_XMIND", "MINDMAP_FREEMIND",
      "DOCX", "TEXT", "PPTX", "UNKNOWN" }

\* Agent registry of the dispatcher
AGENT_CLASSES ==
    { "excel_agent", "pdf_hybrid_agent", "pdf_text_agent", "pdf_scanned_agent",
      "image_vlm_agent", "mindmap_agent", "generic_agent", "image_agent" }

\* Deterministic routing table
FILE_TYPE_TO_AGENT ==
    [ t \in { "EXCEL", "CSV", "IMAGE", "MINDMAP_XMIND", "MINDMAP_FREEMIND",
              "DOCX", "TEXT", "PPTX" } |->
        CASE t \in { "EXCEL", "CSV" } -> "excel_agent"
          [] t = "IMAGE" -> "image_vlm_agent"
          [] t \in { "MINDMAP_XMIND", "MINDMAP_FREEMIND" } -> "mindmap_agent"
          [] OTHER -> "generic_agent" ]

\* pdf_structure: present = FALSE stands for None (or an empty dict)
NoPdfStructure ==
    [ present |-> FALSE, is_scanned |-> FALSE, has_text_layer |-> FALSE,
      has_embedded_images |-> FALSE, has_tables_heuristic |-> FALSE ]

PdfStructures ==
    { NoPdfStructure } \cup
    [ present : { TRUE }, is_scanned : BOOLEAN, has_text_layer : BOOLEAN,
      has_embedded_images : BOOLEAN, has_tables_heuristic : BOOLEAN ]

\* answers of the routing classifier: the call raises, the answer is not JSON,
\* the JSON has no "agent" key, or it names an agent
LLMRoutingAnswers ==
    [ kind : { "raise", "unparsed", "no_agent" }, agent : { "" } ] \cup
    [ kind : { "agent" }, agent : AGENT_CLASSES \cup { "summary_agent" } ]

\* route_file: the agent identifier assigned to one file
route_file(file_type, pdf_structure, llm) ==
    LET ft == IF file_type \in FileTypeValues THEN file_type ELSE "UNKNOWN" IN
    IF ft = "PDF" /\ pdf_structure.present
    THEN IF pdf_structure.is_scanned THEN "pdf_scanned_agent"
         ELSE IF pdf_structure.has_embedded_images \/ pdf_structure.has_tables_heuristic
              THEN "pdf_hybrid_agent"
         ELSE IF pdf_structure.has_text_layer THEN "pdf_text_agent"
         ELSE "pdf_hybrid_agent"
    ELSE IF ft \in DOMAIN FILE_TYPE_TO_AGENT THEN FILE_TYPE_TO_AGENT[ft]
    ELSE IF ft = "UNKNOWN" /\ llm.kind = "agent" THEN llm.agent
    ELSE "generic_agent"

\* ------------------------------------------------------------- job inputs
\* the kinds of file a job of this model is made of
JobFileKinds ==
    { [ file_type |-> "UNKNOWN", pdf_structure |-> NoPdfStructure ] }

\* the classifier answers a job of this model sees
JobRoutingAnswers ==
    { [ kind |-> "raise", agent |-> "" ],
      [ kind |-> "agent", agent |-> "summary_agent" ] }

\* what agent.process does for a file: raise, or return content with a confidence
\* (percent; an agent may report more than 100)
AgentBehaviours ==
    { [ raises |-> TRUE,  markdown |-> "",          confidence |-> 0 ],
      [ raises |-> FALSE, markdown |-> "clean_doc", confidence |-> 90 ],
      [ raises |-> FALSE, markdown |-> "gappy_doc", confidence |-> 120 ] }

\* lengths of the message of a stage-level exception
ErrorLengths == { 41, 501 }

\* what the model behind validate_taxonomy does: the call raises, the answer
\* is no JSON, the answer is the JSON null, or it is an object of the shape
\* the prompt asks for (scores in percent)
TaxonomyAnswers ==
    [ kind : { "raise", "unparsed", "null" }, issues : { << >> },
      data_quality_score : { 0 }, completeness_score : { 0 } ] \cup
    { [ kind |-> "object", issues |-> << >>,
        data_quality_score |-> 80, completeness_score |-> 90 ],
      [ kind |-> "object", issues |-> << "taxonomy_issue" >>,
        data_quality_score |-> 40, completeness_score |-> 50 ] }

\* what the model behind validate_plausibility does
PlausibilityAnswers ==
    [ kind : { "raise", "unparsed" }, flags : { << >> } ] \cup
    [ kind : { "object" }, flags : { << >>, << "plausibility_flag" >> } ]

validate_taxonomy_default_scores(answer) ==
    IF answer.kind = "object"
    THEN [ issues |-> answer.issues, data_quality_score |-> answer.data_quality_score,
           completeness_score |-> answer.completeness_score ]
    ELSE [ issues |-> << >>, data_quality_score |-> 50, completeness_score |-> 50 ]

\* LLMValidator.validate_taxonomy: the parsed object, or no issue and zero
\* scores when the call raises or the answer does not parse
validate_taxonomy(answer) ==
    IF answer.kind = "object"
    THEN [ issues |-> answer.issues, data_quality_score |-> answer.data_quality_score,
           completeness_score |-> answer.completeness_score ]
    ELSE [ issues |-> << >>, data_quality_score |-> 0, completeness_score |-> 0 ]

\* LLMValidator.validate_plausibility: the parsed object, or no flag
validate_plausibility(answer) ==
    IF answer.kind = "object" THEN [ flags |-> answer.flags ] ELSE [ flags |-> << >> ]

\* LLMValidator.validate_all, as validation_node reads it
validate_all(taxonomy_answer, plausibility_answer) ==
    LET taxonomy == validate_taxonomy(taxonomy_answer)
        plausibility == validate_plausibility(plausibility_answer)
    IN  [ issues |-> taxonomy.issues, flags |-> plausibility.flags,
          data_quality_score |-> taxonomy.data_quality_score,
          completeness_score |-> taxonomy.completeness_score ]

\* the answers a job of this model sees from the semantic track: a clean one,
\* and one with a taxonomy issue and a plausibility flag
JobSemanticAnswers ==
    { [ taxonomy |-> [ kind |-> "object", issues |-> << >>,
                       data_quality_score |-> 80, completeness_score |-> 90 ],
        plausibility |-> [ kind |-> "object", flags |-> << >> ] ],
      [ taxonomy |-> [ kind |-> "object", issues |-> << "taxonomy_issue" >>,
                       data_quality_score |-> 40, completeness_score |-> 50 ],
        plausibility |-> [ kind |-> "object", flags |-> << "plausibility_flag" >> ] ] }

\* results of the semantic track for one file of a job (validate_all)
LLMResults ==
    { validate_all(a.taxonomy, a.plausibility) : a \in JobSemanticAnswers }

\* severities a RuleValidationResult may carry for a failed check
RuleValidationResultSeverities == { "warning", "error" }
RuleValidatorSeveritiesWithError == { "warning", "error" }

\* severities the six checks of RuleValidator give a failed check
RuleValidatorSeverities == { "warning" }

\* ------------------------------------------------------------- records
NoValidation == "none"

InitialTask(file_id, kind) ==
    [ file_id |-> file_id, file_type |-> kind.file_type,
      pdf_structure |-> kind.pdf_structure, agent |-> "" ]

\* main.py force_include_quarantined: a task rebuilt from the persisted file record
ReplayTask(file_id, kind) ==
    [ file_id |-> file_id, file_type |-> kind.file_type,
      pdf_structure |-> NoPdfStructure, agent |-> "generic_agent" ]

NoSlot ==
    [ file_id |-> 0, agent |-> "", file_type |-> "", markdown |-> "",
      confidence |-> 0, errors |-> << >>, status |-> "PENDING" ]

\* the initial AgentState.synthesis_result, {}
NoSynthesisResult ==
    [ doc_summaries |-> << >>, cross_doc_synthesis |-> "", insights_markdown |-> "",
      structured_insights |-> "unset" ]

\* BaseAgent.safe_process: an exception of process becomes a partial output
safe_process(behaviour) ==
    IF behaviour.raises
    THEN [ markdown |-> "error_page", confidence |-> 0, errors |-> << "agent_failed" >> ]
    ELSE [ markdown |-> behaviour.markdown, confidence |-> behaviour.confidence,
           errors |-> << >> ]

\* dispatch_file, try branch: the parsed output built from the agent's result
CompletedOutput(task, result) ==
    [ file_id |-> task.file_id, agent |-> task.agent, file_type |-> task.file_type,
      markdown |-> result.markdown, confidence |-> result.confidence,
      errors |-> result.errors, status |-> "COMPLETED" ]

\* dispatch_file, except branch: the output returned for a failed call; the text
\* of str(e) is not modelled, only that the message is carried
FailedOutput(task, error_msg) ==
    [ file_id |-> task.file_id, agent |-> task.agent, file_type |-> task.file_type,
      markdown |-> "", confidence |-> 0, errors |-> << error_msg >>,
      status |-> "FAILED" ]

\* the exception object asyncio.gather stores for a dispatch_file call that raised
ExceptionSlot(task, error_msg) ==
    [ file_id |-> task.file_id, agent |-> task.agent, file_type |-> task.file_type,
      markdown |-> "", confidence |-> 0, errors |-> << error_msg >>,
      status |-> "EXCEPTION" ]

\* normalize_output on the record normalize_all built with ParsedOutput.model_validate:
\* the keys that are not ParsedOutput fields (file_type, status) are gone and the
\* confidence is capped at 1.0
normalize_output(out) ==
    [ file_id |-> out.file_id, agent |-> out.agent, markdown |-> out.markdown,
      confidence |-> Min(out.confidence, 100), errors |-> out.errors,
      validation |-> NoValidation ]

\* ------------------------------------------------------------- validation
\* RuleValidator.validate: the severities of the failed checks of one content;
\* a content with every section, unit and category in place fails no check,
\* any other content fails some, tagged with the severity sev
RuleValidate(markdown, sev) == IF markdown = "clean_doc" THEN { } ELSE { sev }

\* validation_node: rule_errors / rule_warnings of one file
RuleMessages(failed, severity) ==
    IF severity \in failed THEN << severity >> ELSE << >>

\* validation_node: the bucket of the semantic data-quality score
DataQualityRating(data_quality) ==
    IF data_quality >= 75 THEN "Good"
    ELSE IF data_quality >= 50 THEN "Fair"
    ELSE IF data_quality >= 25 THEN "Poor"
    ELSE "Poor"

MergeStatusCountingFlags(rule_errors, rule_warnings, taxonomy_issues) ==
    IF rule_errors # << >> THEN "failed"
    ELSE IF rule_warnings # << >> THEN "passed_with_warnings"
    ELSE "passed"

\* validation_node: the merge rule
MergeStatus(rule_errors, rule_warnings, taxonomy_issues) ==
    IF rule_errors # << >> THEN "failed"
    ELSE IF rule_warnings # << >> \/ taxonomy_issues # << >> THEN "passed_with_warnings"
    ELSE "passed"

QuarantinesIgnoringForce(status, force_include) == status = "failed"

\* validation_node: the quarantine decision
Quarantines(status, force_include) == status = "failed" /\ ~force_include

\* validation_node: the report of one normalized output (llm_confidence_score
\* is kept in percent, the code divides the completeness score by 100)
ValidationReport(output, failed, llm, force_include) ==
    LET rule_errors == RuleMessages(failed, "error")
        rule_warnings == RuleMessages(failed, "warning")
        status == MergeStatus(rule_errors, rule_warnings, llm.issues)
    IN  [ file_id |-> output.file_id,
          status |-> IF Quarantines(status, force_include) THEN "quarantined" ELSE status,
          rule_errors |-> rule_errors,
          rule_warnings |-> rule_warnings,
          taxonomy_issues |-> llm.issues,
          plausibility_flags |-> llm.flags,
          data_quality_rating |-> DataQualityRating(llm.data_quality_score),
          llm_confidence_score |-> llm.completeness_score ]

\* validation_node: the quarantined ids, in the order of the outputs
QuarantinedIds(outputs, statuses, force_include) ==
    LET idx == SelectSeq([ i \in 1..Len(outputs) |-> i ],
                         LAMBDA i : Quarantines(statuses[i], force_include))
    IN  [ k \in 1..Len(idx) |-> outputs[idx[k]].file_id ]

SynthesisInputsAll(outputs, quarantined_ids) == outputs

\* synthesis_node: the outputs that are handed to run_synthesis
SynthesisInputs(outputs, quarantined_ids) ==
    SelectSeq(outputs, LAMBDA o : o.file_id \notin Range(quarantined_ids))

\* ------------------------------------------------------------- the graph
NextNodeSkippingValidation(phase) ==
    CASE phase = "starting" -> "routing"
      [] phase = "routing" -> "agent_processing"
      [] phase = "agent_processing" -> "normalization"
      [] phase = "normalization" -> "synthesis"
      [] phase = "synthesis" -> "output"
      [] OTHER -> "END"

\* build_pipeline_graph: the entry point and the edges
NextNode(phase) ==
    CASE phase = "starting" -> "routing"
      [] phase = "routing" -> "agent_processing"
      [] phase = "agent_processing" -> "normalization"
      [] phase = "normalization" -> "validation"
      [] phase = "validation" -> "synthesis"
      [] phase = "synthesis" -> "output"
      [] OTHER -> "END"

\* progress values returned by the nodes
RoutingProgress == 10
AgentProcessingProgress == 40
NormalizationProgress == 55
ValidationProgress == 65
SynthesisProgress == 80
SynthesisSkippedProgressStale == RoutingProgress
SynthesisSkippedProgress == 80
OutputProgress == 100

\* ------------------------------------------------------------- initial state
NoPrev ==
    [ ran |-> FALSE, excluded |-> { } ]

NoCalls == [ route |-> 0, dispatch |-> 0, validate |-> 0 ]

\* no wrapped function is being called, no client reads the log, and the job
\* has no second run
NoRetryCall == [ position |-> "none" ]

NoLogStream == [ position |-> "none" ]

NoJobRuns == [ position |-> "none" ]

UnitsAtRest ==
    /\ retry_call = NoRetryCall
    /\ log_stream = NoLogStream
    /\ job_runs = NoJobRuns

InitJob(sevs) ==
    /\ \E n \in 0..MaxFiles : job_files \in [ 1..n -> JobFileKinds ]
    /\ rule_severities = sevs
    /\ runs = 0
    /\ pc = "idle"
    /\ raised = FALSE
    /\ force_include_quarantined = FALSE
    /\ file_tasks = << >>
    /\ task_shape = "dict"
    /\ call = << >>
    /\ gathered = << >>
    /\ completion_order = << >>
    /\ file_records = [ i \in DOMAIN job_files |-> "PENDING" ]
    /\ parsed_outputs = << >>
    /\ errors = << >>
    /\ normalized_outputs = << >>
    /\ validation_reports = << >>
    /\ merged_status = << >>
    /\ semantic_answers = << >>
    /\ quarantined_file_ids = << >>
    /\ synthesis_result = NoSynthesisResult
    /\ synthesis_inputs = << >>
    /\ synthesis_calls = << >>
    /\ markdown_report = ""
    /\ current_phase = "starting"
    /\ progress = 0
    /\ phase_log = << >>
    /\ stage_calls = NoCalls
    /\ analysis_record = [ status |-> "PENDING", error_len |-> 0 ]
    /\ marked_completed = FALSE
    /\ failure_persisted = FALSE
    /\ prev = NoPrev
    /\ UnitsAtRest

\* the job as the program runs it: the rule track is RuleValidator's battery
Init == InitJob(RuleValidatorSeverities)

\* the job with a rule track that may tag a failed check with any severity a
\* RuleValidationResult admits
InitAnySeverity == InitJob(RuleValidationResultSeverities)

\* ------------------------------------------------------------- run_pipeline
TruncateNone(len) == len

\* str(e)[:500]
Truncate(len) == Min(len, ErrorTruncation)

\* run_pipeline up to the first node: the analysis record is set to PROCESSING
\* (a failure of that update is swallowed) and the initial AgentState is built
BeginRun(tasks, shape, force) ==
    /\ runs' = runs + 1
    /\ pc' = "running"
    /\ raised' = FALSE
    /\ force_include_quarantined' = force
    /\ file_tasks' = tasks
    /\ task_shape' = shape
    /\ call' = [ i \in 1..Len(tasks) |-> "idle" ]
    /\ gathered' = [ i \in 1..Len(tasks) |-> NoSlot ]
    /\ completion_order' = << >>
    /\ parsed_outputs' = << >>
    /\ errors' = << >>
    /\ normalized_outputs' = << >>
    /\ validation_reports' = << >>
    /\ merged_status' = << >>
    /\ semantic_answers' = << >>
    /\ quarantined_file_ids' = << >>
    /\ synthesis_result' = NoSynthesisResult
    /\ synthesis_inputs' = << >>
    /\ synthesis_calls' = << >>
    /\ markdown_report' = ""
    /\ current_phase' = "starting"
    /\ progress' = 0
    /\ phase_log' = << "starting" >>
    /\ stage_calls' = NoCalls
    /\ marked_completed' = FALSE
    /\ failure_persisted' = FALSE
    /\ \E ok \in BOOLEAN :
          analysis_record' = IF ok THEN [ analysis_record EXCEPT !.status = "PROCESSING" ]
                             ELSE analysis_record
    /\ UNCHANGED << unit_vars,
                    job_files, rule_severities, file_records >>

\* the first run of the job: started with dict tasks, or by ingestion's
\* _process_job, which passes the FileMetadata models themselves
StartFirstRun ==
    /\ runs = 0
    /\ pc = "idle"
    /\ \E shape \in { "dict", "FileMetadata" } :
          BeginRun([ i \in DOMAIN job_files |-> InitialTask(i, job_files[i]) ], shape, FALSE)
    /\ prev' = prev

\* POST force-include-quarantined: the tasks are rebuilt from the file records
\* and run_pipeline is started again with force_include_quarantined = True
StartReplay ==
    /\ runs >= 1
    /\ runs < MaxRuns
    /\ pc \in { "done", "failed" }
    /\ BeginRun([ i \in DOMAIN job_files |-> ReplayTask(i, job_files[i]) ], "dict", TRUE)
    /\ prev' = [ ran |-> TRUE,
                 excluded |-> IF /\ current_phase \in { "synthesis", "output" }
                                 /\ synthesis_inputs = << >>
                              THEN Range(quarantined_file_ids) ELSE { } ]

\* run_pipeline's except branch: the job is marked FAILED with the truncated
\* message (a failure of that update is swallowed) and the exception re-raised
StageRaises(len) ==
    /\ pc' = "failed"
    /\ raised' = TRUE
    /\ \E ok \in BOOLEAN :
          /\ analysis_record' = IF ok THEN [ status |-> "FAILED", error_len |-> Truncate(len) ]
                                ELSE analysis_record
          /\ failure_persisted' = ok
    /\ UNCHANGED << unit_vars,
                    job_files, rule_severities, runs, force_include_quarantined, file_tasks,
                    task_shape, call, gathered, completion_order, file_records, parsed_outputs,
                    errors, normalized_outputs, validation_reports, merged_status,
                    semantic_answers, quarantined_file_ids, synthesis_result, synthesis_inputs,
                    current_phase, progress, phase_log, stage_calls, marked_completed,
                    synthesis_calls, markdown_report, prev >>

\* a node returned: its phase and progress are merged into the state
EnterPhase(phase, value) ==
    /\ current_phase' = phase
    /\ progress' = value
    /\ phase_log' = Append(phase_log, phase)

\* ------------------------------------------------------------- routing
\* routing_node over dict tasks (or no task at all)
routing_node ==
    /\ pc = "running"
    /\ NextNode(current_phase) = "routing"
    /\ task_shape = "dict" \/ Len(file_tasks) = 0
    /\ \E llm \in [ 1..Len(file_tasks) -> JobRoutingAnswers ] :
          file_tasks' = [ i \in 1..Len(file_tasks) |->
                            [ file_tasks[i] EXCEPT !.agent =
                                route_file(file_tasks[i].file_type,
                                           file_tasks[i].pdf_structure, llm[i]) ] ]
    /\ EnterPhase("routing", RoutingProgress)
    /\ stage_calls' = [ stage_calls EXCEPT !.route = @ + Len(file_tasks) ]
    /\ UNCHANGED << unit_vars,
                    job_files, rule_severities, runs, pc, raised, force_include_quarantined,
                    task_shape, call, gathered, completion_order, file_records, parsed_outputs,
                    errors, normalized_outputs, validation_reports, merged_status,
                    semantic_answers, quarantined_file_ids, synthesis_result, synthesis_inputs,
                    analysis_record, marked_completed, failure_persisted, synthesis_calls,
                    markdown_report, prev >>

\* routing_node over FileMetadata models: task["file_id"] raises a TypeError
routing_node_raises ==
    /\ pc = "running"
    /\ NextNode(current_phase) = "routing"
    /\ task_shape = "FileMetadata"
    /\ Len(file_tasks) > 0
    /\ StageRaises(41)

\* ------------------------------------------------------------- dispatch
\* dispatch_file's except branch: the file record is set to FAILED and the
\* FAILED output returned; when that update raises too, the call raises
DispatchExcept(i, failed_update_ok) ==
    /\ gathered' = [ gathered EXCEPT ![i] =
                        IF failed_update_ok THEN FailedOutput(file_tasks[i], "error_msg")
                        ELSE ExceptionSlot(file_tasks[i], "error_msg") ]
    /\ call' = [ call EXCEPT ![i] = IF failed_update_ok THEN "returned" ELSE "raised" ]
    /\ completion_order' = Append(completion_order, i)
    /\ file_records' = IF failed_update_ok
                       THEN [ file_records EXCEPT ![file_tasks[i].file_id] = "FAILED" ]
                       ELSE file_records

\* dispatch_file up to its first await: the file record is set to PROCESSING
dispatch_file_begin(i) ==
    /\ pc = "running"
    /\ NextNode(current_phase) = "agent_processing"
    /\ call[i] = "idle"
    /\ \E processing_update_ok, failed_update_ok \in BOOLEAN :
          IF processing_update_ok
          THEN /\ call' = [ call EXCEPT ![i] = "started" ]
               /\ gathered' = gathered
               /\ completion_order' = completion_order
               /\ file_records' =
                     [ file_records EXCEPT ![file_tasks[i].file_id] = "PROCESSING" ]
          ELSE DispatchExcept(i, failed_update_ok)
    /\ stage_calls' = [ stage_calls EXCEPT !.dispatch = @ + 1 ]
    /\ UNCHANGED << unit_vars,
                    job_files, rule_severities, runs, pc, raised, force_include_quarantined,
                    file_tasks, task_shape, parsed_outputs, errors, normalized_outputs,
                    validation_reports, merged_status, semantic_answers, quarantined_file_ids,
                    synthesis_result, synthesis_inputs, current_phase, progress, phase_log,
                    analysis_record, marked_completed, failure_persisted,
                    synthesis_calls, markdown_report, prev >>

DispatchFaults == { "none", "download", "completed_update" }

\* the rest of dispatch_file: download, agent lookup, safe_process, COMPLETED update
dispatch_file_finish(i) ==
    /\ pc = "running"
    /\ NextNode(current_phase) = "agent_processing"
    /\ call[i] = "started"
    /\ \E fault \in DispatchFaults, behaviour \in AgentBehaviours, failed_update_ok \in BOOLEAN :
          IF fault = "download"
          THEN DispatchExcept(i, failed_update_ok)
          ELSE IF file_tasks[i].agent \notin AGENT_CLASSES
          THEN DispatchExcept(i, failed_update_ok)
          ELSE IF fault = "completed_update"
          THEN DispatchExcept(i, failed_update_ok)
          ELSE /\ gathered' = [ gathered EXCEPT ![i] =
                                   CompletedOutput(file_tasks[i], safe_process(behaviour)) ]
               /\ call' = [ call EXCEPT ![i] = "returned" ]
               /\ completion_order' = Append(completion_order, i)
               /\ file_records' =
                     [ file_records EXCEPT ![file_tasks[i].file_id] = "COMPLETED" ]
    /\ UNCHANGED << unit_vars,
                    job_files, rule_severities, runs, pc, raised, force_include_quarantined,
                    file_tasks, task_shape, parsed_outputs, errors, normalized_outputs,
                    validation_reports, merged_status, semantic_answers, quarantined_file_ids,
                    synthesis_result, synthesis_inputs, current_phase, progress, phase_log,
                    stage_calls, analysis_record, marked_completed, failure_persisted,
                    synthesis_calls, markdown_report, prev >>

CollectResultsUntilException(slots) ==
    LET bad == { i \in 1..Len(slots) : slots[i].status = "EXCEPTION" }
    IN  IF bad = { } THEN slots
        ELSE SubSeq(slots, 1, (CHOOSE i \in bad : \A j \in bad : i <= j) - 1)

CollectResultsInCompletionOrder(slots) ==
    LET done == SelectSeq(completion_order, LAMBDA i : slots[i].status # "EXCEPTION")
    IN  [ k \in 1..Len(done) |-> slots[done[k]] ]

\* agent_processing_node after asyncio.gather(return_exceptions=True): the
\* outputs are collected in task order, an exception becomes an error entry
CollectResults(slots) == SelectSeq(slots, LAMBDA o : o.status # "EXCEPTION")

CollectErrors(slots) ==
    LET exc == SelectSeq(slots, LAMBDA o : o.status = "EXCEPTION")
    IN  [ k \in 1..Len(exc) |->
            [ file_id |-> exc[k].file_id, phase |-> "agent_processing",
              error |-> exc[k].errors[1] ] ]

agent_processing_node ==
    /\ pc = "running"
    /\ NextNode(current_phase) = "agent_processing"
    /\ \A i \in 1..Len(file_tasks) : call[i] \in { "returned", "raised" }
    /\ parsed_outputs' = CollectResults(gathered)
    /\ errors' = errors \o CollectErrors(gathered)
    /\ EnterPhase("agent_processing", AgentProcessingProgress)
    /\ UNCHANGED << unit_vars,
                    job_files, rule_severities, runs, pc, raised, force_include_quarantined,
                    file_tasks, task_shape, call, gathered, completion_order, file_records,
                    normalized_outputs, validation_reports, merged_status, semantic_answers,
                    quarantined_file_ids, synthesis_result, synthesis_inputs, stage_calls,
                    analysis_record, marked_completed, failure_persisted, synthesis_calls,
                    markdown_report, prev >>

\* ------------------------------------------------------------- normalization
\* normalize_output, step 7, for each output in turn: the record of the
\* output's file is set to COMPLETED.  The update is taken to succeed: when
\* it raises, the exception is swallowed and the record stays as it was
update_file_status(records, outputs) ==
    [ f \in DOMAIN records |->
        IF \E k \in 1..Len(outputs) : outputs[k].file_id = f
        THEN "COMPLETED" ELSE records[f] ]

\* normalization_node: normalize_all over the parsed outputs (the uploads of
\* normalize_output are wrapped and leave the state alone)
normalization_node ==
    /\ pc = "running"
    /\ NextNode(current_phase) = "normalization"
    /\ normalized_outputs' = [ i \in 1..Len(parsed_outputs) |->
                                 normalize_output(parsed_outputs[i]) ]
    /\ file_records' = update_file_status(file_records, parsed_outputs)
    /\ completion_order' = << >>
    /\ EnterPhase("normalization", NormalizationProgress)
    /\ UNCHANGED << unit_vars,
                    job_files, rule_severities, runs, pc, raised, force_include_quarantined,
                    file_tasks, task_shape, call, gathered,
                    parsed_outputs, errors, validation_reports, merged_status, semantic_answers,
                    quarantined_file_ids, synthesis_result, synthesis_inputs, stage_calls,
                    analysis_record, marked_completed, failure_persisted, synthesis_calls,
                    markdown_report, prev >>

\* ------------------------------------------------------------- validation
\* validation_node over all normalized outputs
validation_node ==
    /\ pc = "running"
    /\ NextNode(current_phase) = "validation"
    /\ \E sevs \in [ 1..Len(normalized_outputs) -> rule_severities ],
          answers \in [ 1..Len(normalized_outputs) -> JobSemanticAnswers ] :
          LET failed(i) == RuleValidate(normalized_outputs[i].markdown, sevs[i])
              llm == [ i \in 1..Len(normalized_outputs) |->
                         validate_all(answers[i].taxonomy, answers[i].plausibility) ]
              merged == [ i \in 1..Len(normalized_outputs) |->
                            MergeStatus(RuleMessages(failed(i), "error"),
                                        RuleMessages(failed(i), "warning"),
                                        llm[i].issues) ]
          IN  /\ validation_reports' =
                    [ i \in 1..Len(normalized_outputs) |->
                        ValidationReport(normalized_outputs[i], failed(i), llm[i],
                                         force_include_quarantined) ]
              /\ merged_status' = merged
              /\ semantic_answers' = answers
              /\ quarantined_file_ids' =
                    QuarantinedIds(normalized_outputs, merged, force_include_quarantined)
    /\ EnterPhase("validation", ValidationProgress)
    /\ stage_calls' = [ stage_calls EXCEPT !.validate = @ + Len(normalized_outputs) ]
    /\ UNCHANGED << unit_vars,
                    job_files, rule_severities, runs, pc, raised, force_include_quarantined,
                    file_tasks, task_shape, call, gathered, completion_order, file_records,
                    parsed_outputs, errors, normalized_outputs, synthesis_result,
                    synthesis_inputs, analysis_record, marked_completed, failure_persisted,
                    synthesis_calls, markdown_report, prev >>

\* validation_node reading a semantic-track answer whose JSON has another shape
\* than it expects (an issue that is no object, a score that is no number)
validation_node_raises ==
    /\ pc = "running"
    /\ NextNode(current_phase) = "validation"
    /\ Len(normalized_outputs) > 0
    /\ \E len \in ErrorLengths : StageRaises(len)

\* ------------------------------------------------------------- synthesis
\* synthesis_node: output["validation"] = val_report on every output that is
\* not quarantined (the outputs are the records of normalized_outputs)
AttachValidation(outputs, reports, quarantined_ids) ==
    [ i \in 1..Len(outputs) |->
        IF outputs[i].file_id \in Range(quarantined_ids) THEN outputs[i]
        ELSE LET match == SelectSeq(reports, LAMBDA v : v.file_id = outputs[i].file_id)
             IN  [ outputs[i] EXCEPT !.validation =
                     IF match = << >> THEN "empty" ELSE match[1].status ] ]

\* what the model behind a text-producing synthesis call does
TextAnswers == { "text", "raise" }
\* what it does for extract_structured_insights: a JSON object, the JSON null,
\* something that is no JSON, or the call raises
StructuredAnswers == { "object", "null", "unparsed", "raise" }

\* summarize_document: the summary of one document, a placeholder carrying
\* the error when the call raises
summarize_document(doc, answer) ==
    [ file_id |-> doc.file_id,
      summary |-> IF answer = "raise" THEN "summary_failed" ELSE "summary",
      error |-> answer = "raise" ]

CollectSummaryIfSucceeded(summaries, summary) ==
    IF summary.error THEN summaries ELSE Append(summaries, summary)

\* summarize_all_documents: summaries.append(summary)
CollectSummary(summaries, summary) == Append(summaries, summary)

\* summarize_all_documents: the documents are summarized one after the other
\* (a document is skipped when its status key is "QUARANTINED"; the documents
\* synthesis_node passes carry no status key)
RECURSIVE summarize_all_documents(_, _)
summarize_all_documents(docs, answers) ==
    IF docs = << >> THEN << >>
    ELSE CollectSummary(
            summarize_all_documents(SubSeq(docs, 1, Len(docs) - 1),
                                    SubSeq(answers, 1, Len(docs) - 1)),
            summarize_document(docs[Len(docs)], answers[Len(docs)]))

synthesize_across_documents_no_stub(doc_summaries, answer) ==
    IF answer = "raise" THEN "" ELSE "narrative"

\* synthesize_across_documents: the narrative, a stub carrying the error when
\* the call raises
synthesize_across_documents(doc_summaries, answer) ==
    IF answer = "raise" THEN "synthesis_failed" ELSE "narrative"

\* extract_insights
extract_insights(synthesis_text, answer) ==
    IF answer = "raise" THEN "insights_failed" ELSE "insights"

\* extract_structured_insights: the parsed object, or _default_structured_insights
extract_structured_insights(synthesis_text, insights_text, answer) ==
    IF answer = "object" THEN "structured" ELSE "default"

\* the calls run_synthesis makes for n documents, in order
RunSynthesisCalls(n) ==
    [ k \in 1..n |-> "summarize_document" ] \o
    << "synthesize_across_documents", "extract_insights", "extract_structured_insights" >>

\* run_synthesis: the three stages, each on the result of the one before
run_synthesis(inputs, answers) ==
    LET doc_summaries == summarize_all_documents(inputs, answers.summaries)
        cross_doc_synthesis == synthesize_across_documents(doc_summaries, answers.cross)
        insights_markdown == extract_insights(cross_doc_synthesis, answers.insights)
    IN  [ doc_summaries |-> doc_summaries,
          cross_doc_synthesis |-> cross_doc_synthesis,
          insights_markdown |-> insights_markdown,
          structured_insights |->
              extract_structured_insights(cross_doc_synthesis, insights_markdown,
                                          answers.structured) ]

\* every call of the synthesis stages answers
AllAnswered(n) ==
    [ summaries |-> [ k \in 1..n |-> "text" ], cross |-> "text", insights |-> "text",
      structured |-> "object" ]

EmptySynthesisResultFromRun == run_synthesis(<< >>, AllAnswered(0))

\* synthesis_node's result when there is nothing to synthesize
EmptySynthesisResult ==
    [ doc_summaries |-> << >>, cross_doc_synthesis |-> "No files available for synthesis.",
      insights_markdown |-> "", structured_insights |-> "empty" ]

\* generate_report: the markdown report for a synthesis result
generate_report(result) ==
    IF result.doc_summaries = << >> THEN "stub_report" ELSE "report"

synthesis_node ==
    /\ pc = "running"
    /\ NextNode(current_phase) = "synthesis"
    /\ LET attached == AttachValidation(normalized_outputs, validation_reports,
                                        quarantined_file_ids)
           inputs == SynthesisInputs(attached, quarantined_file_ids)
       IN  /\ inputs # << >>
           /\ normalized_outputs' = attached
           /\ synthesis_inputs' = [ k \in 1..Len(inputs) |-> inputs[k].file_id ]
           /\ synthesis_result' = run_synthesis(inputs, AllAnswered(Len(inputs)))
           /\ synthesis_calls' = RunSynthesisCalls(Len(inputs))
    /\ EnterPhase("synthesis", SynthesisProgress)
    /\ UNCHANGED << unit_vars,
                    job_files, rule_severities, runs, pc, raised, force_include_quarantined,
                    file_tasks, task_shape, call, gathered, completion_order, file_records,
                    parsed_outputs, errors, validation_reports, merged_status, semantic_answers,
                    quarantined_file_ids, stage_calls, analysis_record, marked_completed,
                    failure_persisted, markdown_report, prev >>

synthesis_node_skipped ==
    /\ pc = "running"
    /\ NextNode(current_phase) = "synthesis"
    /\ SynthesisInputs(normalized_outputs, quarantined_file_ids) = << >>
    /\ synthesis_result' = EmptySynthesisResult
    /\ EnterPhase("synthesis", SynthesisSkippedProgress)
    /\ UNCHANGED << unit_vars,
                    job_files, rule_severities, runs, pc, raised, force_include_quarantined,
                    file_tasks, task_shape, call, gathered, completion_order, file_records,
                    parsed_outputs, errors, normalized_outputs, validation_reports,
                    merged_status, semantic_answers, quarantined_file_ids, synthesis_inputs,
                    stage_calls, analysis_record, marked_completed, failure_persisted,
                    synthesis_calls, markdown_report, prev >>

\* ------------------------------------------------------------- output
\* output_node: the deliverables are generated and the analysis record is set
\* to COMPLETED, a failure of that update being swallowed
output_node ==
    /\ pc = "running"
    /\ NextNode(current_phase) = "output"
    /\ \E ok \in BOOLEAN :
          /\ analysis_record' = IF ok THEN [ analysis_record EXCEPT !.status = "COMPLETED" ]
                                ELSE analysis_record
          /\ marked_completed' = ok
    /\ markdown_report' = generate_report(synthesis_result)
    /\ EnterPhase("output", OutputProgress)
    /\ UNCHANGED << unit_vars,
                    job_files, rule_severities, runs, pc, raised, force_include_quarantined,
                    file_tasks, task_shape, call, gathered, completion_order, file_records,
                    parsed_outputs, errors, normalized_outputs, validation_reports,
                    merged_status, semantic_answers, quarantined_file_ids, synthesis_result,
                    synthesis_inputs, stage_calls, failure_persisted, synthesis_calls, prev >>

\* output_node when export_analysis_json or build_viz_data raises on the
\* structured insights it reads: an object the model returned, whose entries
\* may have any shape (the default and the empty object have none)
output_node_raises ==
    /\ pc = "running"
    /\ NextNode(current_phase) = "output"
    /\ synthesis_result.structured_insights = "structured"
    /\ \E len \in ErrorLengths : StageRaises(len)

\* run_pipeline after ainvoke returned: the final state goes to the caller
pipeline_return ==
    /\ pc = "running"
    /\ NextNode(current_phase) = "END"
    /\ pc' = "done"
    /\ UNCHANGED << unit_vars,
                    job_files, rule_severities, runs, raised, force_include_quarantined,
                    file_tasks, task_shape, call, gathered, completion_order, file_records,
                    parsed_outputs, errors, normalized_outputs, validation_reports,
                    merged_status, semantic_answers, quarantined_file_ids, synthesis_result,
                    synthesis_inputs, current_phase, progress, phase_log, stage_calls,
                    analysis_record, marked_completed, failure_persisted, synthesis_calls,
                    markdown_report, prev >>

\* ------------------------------------------------------------- specification
Next ==
    \/ StartFirstRun
    \/ StartReplay
    \/ routing_node
    \/ routing_node_raises
    \/ \E i \in 1..MaxFiles : i <= Len(file_tasks) /\ dispatch_file_begin(i)
    \/ \E i \in 1..MaxFiles : i <= Len(file_tasks) /\ dispatch_file_finish(i)
    \/ agent_processing_node
    \/ normalization_node
    \/ validation_node
    \/ validation_node_raises
    \/ synthesis_node
    \/ synthesis_node_skipped
    \/ output_node
    \/ output_node_raises
    \/ pipeline_return

Spec == Init /\ [][Next]_vars

SpecAnySeverity == InitAnySeverity /\ [][Next]_vars


\* ------------------------------------------------------------- stages on their own
\* the state in which one stage of the pipeline is entered, the job having
\* the files `files`, the tasks `tasks`, the parsed outputs `parsed` and the
\* normalized outputs `outputs`
InitStage(position, files, tasks, parsed, outputs, inputs, phase, value, force) ==
    /\ job_files = files
    /\ rule_severities = RuleValidationResultSeverities
    /\ runs = 1
    /\ pc = position
    /\ raised = FALSE
    /\ force_include_quarantined = force
    /\ file_tasks = tasks
    /\ task_shape = "dict"
    /\ call = [ i \in 1..Len(tasks) |-> "idle" ]
    /\ gathered = [ i \in 1..Len(tasks) |-> NoSlot ]
    /\ completion_order = << >>
    /\ file_records = [ i \in 1..Len(files) |-> "PENDING" ]
    /\ parsed_outputs = parsed
    /\ errors = << >>
    /\ normalized_outputs = outputs
    /\ validation_reports = << >>
    /\ merged_status = << >>
    /\ semantic_answers = << >>
    /\ quarantined_file_ids = << >>
    /\ synthesis_result = NoSynthesisResult
    /\ synthesis_inputs = inputs
    /\ synthesis_calls = << >>
    /\ markdown_report = ""
    /\ current_phase = phase
    /\ progress = value
    /\ phase_log = << >>
    /\ stage_calls = NoCalls
    /\ analysis_record = [ status |-> "PROCESSING", error_len |-> 0 ]
    /\ marked_completed = FALSE
    /\ failure_persisted = FALSE
    /\ prev = NoPrev

\* ------------------------------------------------------------- run_synthesis, call by call
\* the documents synthesis_node passes to run_synthesis: one or more normalized
\* outputs, in the order of their files
SynthesisDocs ==
    { [ k \in 1..n |->
          normalize_output(CompletedOutput(
              [ file_id |-> k, file_type |-> "UNKNOWN", pdf_structure |-> NoPdfStructure,
                agent |-> "generic_agent" ],
              [ markdown |-> "clean_doc", confidence |-> 90, errors |-> << >> ])) ]
      : n \in 1..MaxFiles }

InitSynthesis ==
    /\ UnitsAtRest
    /\ \E docs \in SynthesisDocs, force \in BOOLEAN :
        InitStage("stage_1", [ k \in 1..Len(docs) |-> CHOOSE kind \in JobFileKinds : TRUE ],
                  << >>, << >>, docs, [ k \in 1..Len(docs) |-> docs[k].file_id ],
                  "validation", ValidationProgress, force)

\* what a call of a synthesis stage leaves alone
SynthesisFrame ==
    UNCHANGED << unit_vars,
                 job_files, rule_severities, runs, raised, force_include_quarantined,
                 file_tasks, task_shape, call, gathered, completion_order, file_records,
                 parsed_outputs, errors, normalized_outputs, validation_reports, merged_status,
                 semantic_answers, quarantined_file_ids, synthesis_inputs, markdown_report,
                 current_phase, progress, phase_log, stage_calls, analysis_record,
                 marked_completed, failure_persisted, prev >>

\* summarize_all_documents: the next document is summarized
summarize_document_call ==
    /\ pc = "stage_1"
    /\ Len(synthesis_calls) < Len(normalized_outputs)
    /\ \E answer \in TextAnswers :
          synthesis_result' =
              [ synthesis_result EXCEPT !.doc_summaries =
                  CollectSummary(@, summarize_document(
                      normalized_outputs[Len(synthesis_calls) + 1], answer)) ]
    /\ synthesis_calls' = Append(synthesis_calls, "summarize_document")
    /\ pc' = IF Len(synthesis_calls') = Len(normalized_outputs) THEN "stage_2" ELSE "stage_1"
    /\ SynthesisFrame

\* run_synthesis, stage 2
synthesize_across_documents_call ==
    /\ pc = "stage_2"
    /\ \E answer \in TextAnswers :
          synthesis_result' =
              [ synthesis_result EXCEPT !.cross_doc_synthesis =
                  synthesize_across_documents(synthesis_result.doc_summaries, answer) ]
    /\ synthesis_calls' = Append(synthesis_calls, "synthesize_across_documents")
    /\ pc' = "stage_3"
    /\ SynthesisFrame

\* run_synthesis, stage 3: the narrative insights
extract_insights_call ==
    /\ pc = "stage_3"
    /\ \E answer \in TextAnswers :
          synthesis_result' =
              [ synthesis_result EXCEPT !.insights_markdown =
                  extract_insights(synthesis_result.cross_doc_synthesis, answer) ]
    /\ synthesis_calls' = Append(synthesis_calls, "extract_insights")
    /\ pc' = "stage_3_structured"
    /\ SynthesisFrame

\* run_synthesis, stage 3: the structured insights, then the result is returned
extract_structured_insights_call ==
    /\ pc = "stage_3_structured"
    /\ \E answer \in StructuredAnswers :
          synthesis_result' =
              [ synthesis_result EXCEPT !.structured_insights =
                  extract_structured_insights(synthesis_result.cross_doc_synthesis,
                                              synthesis_result.insights_markdown, answer) ]
    /\ synthesis_calls' = Append(synthesis_calls, "extract_structured_insights")
    /\ pc' = "synthesis_returned"
    /\ SynthesisFrame

NextSynthesis ==
    \/ summarize_document_call
    \/ synthesize_across_documents_call
    \/ extract_insights_call
    \/ extract_structured_insights_call

SpecSynthesis == InitSynthesis /\ [][NextSynthesis]_vars

\* ------------------------------------------------------------- validation_node, file by file
\* the normalized outputs validation_node walks over: one or more, each with a
\* content that fails no rule check or one that fails some
ValidationDocs ==
    UNION { [ 1..n -> { "clean_doc", "gappy_doc" } ] : n \in 1..MaxFiles }

ValidationOutput(k, markdown) ==
    normalize_output(CompletedOutput(
        [ file_id |-> k, file_type |-> "UNKNOWN", pdf_structure |-> NoPdfStructure,
          agent |-> "generic_agent" ],
        [ markdown |-> markdown, confidence |-> 90, errors |-> << >> ]))

InitValidation ==
    /\ UnitsAtRest
    /\ \E docs \in ValidationDocs, force \in BOOLEAN :
        InitStage("validate", [ k \in 1..Len(docs) |-> CHOOSE kind \in JobFileKinds : TRUE ],
                  << >>, << >>, [ k \in 1..Len(docs) |-> ValidationOutput(k, docs[k]) ], << >>,
                  "normalization", NormalizationProgress, force)

\* RuleValidator.validate: the severities the failed checks of one content can
\* carry, a content being checked by several rules
RuleFindings(markdown) ==
    IF markdown = "clean_doc" THEN { { } }
    ELSE (SUBSET RuleValidationResultSeverities) \ { { } }

\* validation_node: one turn of its loop; after the last output the node returns
validate_output_call ==
    /\ pc = "validate"
    /\ Len(validation_reports) < Len(normalized_outputs)
    /\ LET output == normalized_outputs[Len(validation_reports) + 1]
       IN  \E failed \in RuleFindings(output.markdown),
              taxonomy \in TaxonomyAnswers, plausibility \in PlausibilityAnswers :
              LET llm == validate_all(taxonomy, plausibility)
                  status == MergeStatus(RuleMessages(failed, "error"),
                                        RuleMessages(failed, "warning"), llm.issues)
              IN  /\ validation_reports' =
                        Append(validation_reports,
                               ValidationReport(output, failed, llm,
                                                force_include_quarantined))
                  /\ merged_status' = Append(merged_status, status)
                  /\ semantic_answers' =
                        Append(semantic_answers,
                               [ taxonomy |-> taxonomy, plausibility |-> plausibility ])
                  /\ quarantined_file_ids' =
                        IF Quarantines(status, force_include_quarantined)
                        THEN Append(quarantined_file_ids, output.file_id)
                        ELSE quarantined_file_ids
    /\ stage_calls' = [ stage_calls EXCEPT !.validate = @ + 1 ]
    /\ IF Len(validation_reports') = Len(normalized_outputs)
       THEN /\ pc' = "validation_returned"
            /\ EnterPhase("validation", ValidationProgress)
       ELSE UNCHANGED << pc, current_phase, progress, phase_log >>
    /\ UNCHANGED << unit_vars,
                    job_files, rule_severities, runs, raised, force_include_quarantined,
                    file_tasks, task_shape, call, gathered, completion_order, file_records,
                    parsed_outputs, errors, normalized_outputs, synthesis_result,
                    synthesis_inputs, synthesis_calls, markdown_report, analysis_record,
                    marked_completed, failure_persisted, prev >>

NextValidation == validate_output_call

SpecValidation == InitValidation /\ [][NextValidation]_vars

\* ------------------------------------------------------------- route_file on its own
\* one task of any detected type, with or without the structure of a PDF (the
\* replay endpoint builds every task with pdf_structure None)
InitRouteFile ==
    /\ UnitsAtRest
    /\ \E file_type \in FileTypeValues, pdf_structure \in PdfStructures :
        InitStage("route_file",
                  << [ file_type |-> file_type, pdf_structure |-> pdf_structure ] >>,
                  << [ file_id |-> 1, file_type |-> file_type,
                       pdf_structure |-> pdf_structure, agent |-> "generic_agent" ] >>,
                  << >>, << >>, << >>, "starting", 0, FALSE)

\* route_all_files: one turn of its loop, task["agent"] = routing["agent"]
route_file_call ==
    /\ pc = "route_file"
    /\ \E llm \in LLMRoutingAnswers :
          file_tasks' = [ file_tasks EXCEPT ![1].agent =
                            route_file(file_tasks[1].file_type,
                                       file_tasks[1].pdf_structure, llm) ]
    /\ stage_calls' = [ stage_calls EXCEPT !.route = @ + 1 ]
    /\ pc' = "routed"
    /\ UNCHANGED << unit_vars,
                    job_files, rule_severities, runs, raised, force_include_quarantined,
                    task_shape, call, gathered, completion_order, file_records, parsed_outputs,
                    errors, normalized_outputs, validation_reports, merged_status,
                    semantic_answers, quarantined_file_ids, synthesis_result, synthesis_inputs,
                    synthesis_calls, markdown_report, current_phase, progress, phase_log,
                    analysis_record, marked_completed, failure_persisted, prev >>

NextRouteFile == route_file_call

SpecRouteFile == InitRouteFile /\ [][NextRouteFile]_vars

\* ------------------------------------------------------------- normalize_output on a text
\* A content is the sequence of its lines, markdown.split("\n"); the empty
\* content is the one empty line.  The lines of this model:
MarkdownLines ==
    { "", " ", "Scope", "| a | b |", "  | a | b |", "| c | d |",
      "| --- | --- |", "|:--|:--|", "| a |", "| --- |" }

\* line.strip()
StripLine(line) ==
    CASE line = " " -> ""
      [] line = "  | a | b |" -> "| a | b |"
      [] OTHER -> line

\* re.match(r"^\|.*\|$", line.strip())
IsTableRow(line) ==
    StripLine(line) \in { "| a | b |", "| c | d |", "| --- | --- |", "|:--|:--|",
                          "| a |", "| --- |" }

\* re.match(r"^\|[\s\-:|]+\|$", line.strip())
IsSeparatorRow(line) ==
    StripLine(line) \in { "| --- | --- |", "|:--|:--|", "| --- |" }

\* line.count("|")
CountPipes(line) ==
    CASE StripLine(line) \in { "| a | b |", "| c | d |", "| --- | --- |", "|:--|:--|" } -> 3
      [] StripLine(line) \in { "| a |", "| --- |" } -> 2
      [] OTHER -> 0

\* "| " + " | ".join(["---"] * cols) + " |"
SeparatorRow(cols) == IF cols = 1 THEN "| --- |" ELSE "| --- | --- |"

\* len(line.split())
CountWords(line) ==
    CASE StripLine(line) = "" -> 0
      [] StripLine(line) \in { "Scope", "|:--|:--|" } -> 1
      [] StripLine(line) \in { "| a |", "| --- |" } -> 3
      [] OTHER -> 5

RECURSIVE DropBlankHead(_)
DropBlankHead(lines) ==
    IF lines = << >> THEN << >>
    ELSE IF StripLine(Head(lines)) = "" THEN DropBlankHead(Tail(lines))
    ELSE lines

RECURSIVE DropBlankTail(_)
DropBlankTail(lines) ==
    IF lines = << >> THEN << >>
    ELSE IF StripLine(lines[Len(lines)]) = "" THEN DropBlankTail(SubSeq(lines, 1, Len(lines) - 1))
    ELSE lines

\* markdown.strip(): the blank lines at both ends go, and so does the white
\* space before the first and after the last character (no line of this
\* model ends in white space)
strip(lines) ==
    LET kept == DropBlankTail(DropBlankHead(lines))
    IN  IF kept = << >> THEN << "" >>
        ELSE << StripLine(kept[1]) >> \o Tail(kept)

RECURSIVE ensure_table_separator_loop(_, _, _)

ensure_table_separator_between_rows(lines, i, result) ==
    IF i > Len(lines) THEN result
    ELSE LET line == lines[i]
             inserts == /\ IsTableRow(line)
                        /\ i + 1 <= Len(lines)
                        /\ IsTableRow(lines[i + 1])
                        /\ ~IsSeparatorRow(lines[i + 1])
                        /\ CountPipes(line) - 1 > 0
         IN  ensure_table_separator_loop(
                 lines, i + 1,
                 IF inserts THEN result \o << line, SeparatorRow(CountPipes(line) - 1) >>
                 ELSE Append(result, line))

\* ensure_table_separator: the while loop from index i on
ensure_table_separator_loop(lines, i, result) ==
    IF i > Len(lines) THEN result
    ELSE LET line == lines[i]
             inserts == /\ IsTableRow(line)
                        /\ i + 1 <= Len(lines)
                        /\ IsTableRow(lines[i + 1])
                        /\ ~IsSeparatorRow(lines[i + 1])
                        /\ CountPipes(line) - 1 > 0
                        /\ (i = 1 \/ ~IsTableRow(lines[i - 1]))
         IN  ensure_table_separator_loop(
                 lines, i + 1,
                 IF inserts THEN result \o << line, SeparatorRow(CountPipes(line) - 1) >>
                 ELSE Append(result, line))

ensure_table_separator(lines) == ensure_table_separator_loop(lines, 1, << >>)

RECURSIVE deduplicate_loop(_, _, _)
\* deduplicate_consecutive_lines: the for loop, prev being the line before
\* (has_prev = FALSE stands for None)
deduplicate_loop(lines, has_prev, prev_line) ==
    IF lines = << >> THEN << >>
    ELSE IF has_prev /\ Head(lines) = prev_line
         THEN deduplicate_loop(Tail(lines), TRUE, Head(lines))
         ELSE << Head(lines) >> \o deduplicate_loop(Tail(lines), TRUE, Head(lines))

deduplicate_consecutive_lines(lines) == deduplicate_loop(lines, FALSE, "")

RECURSIVE word_count(_)
\* len(markdown.split())
word_count(lines) ==
    IF lines = << >> THEN 0 ELSE CountWords(Head(lines)) + word_count(Tail(lines))

\* min(output.confidence, 1.0), in percent
cap_confidence(confidence) == Min(confidence, 100)

\* normalize_output, steps 1 to 5, on the fields they touch
normalize_fields(out) ==
    LET markdown == deduplicate_consecutive_lines(ensure_table_separator(strip(out.markdown)))
    IN  [ out EXCEPT !.markdown = markdown,
                     !.word_count = word_count(markdown),
                     !.confidence = cap_confidence(@) ]

\* the confidences an agent reports, in percent: the image agent divides the
\* score of the vision model by 5, whatever that score is
ReportedConfidences == { 0 - 20, 90, 120 }

\* the contents an agent returns
MarkdownTexts == UNION { [ 1..n -> MarkdownLines ] : n \in 1..MaxLines }

InitNormalize ==
    /\ UnitsAtRest
    /\ \E text \in MarkdownTexts, confidence \in ReportedConfidences :
        InitStage("normalize", << CHOOSE kind \in JobFileKinds : TRUE >>, << >>,
                  << [ file_id |-> 1, agent |-> "generic_agent", markdown |-> text,
                       confidence |-> confidence, word_count |-> 0, errors |-> << >> ] >>,
                  << >>, << >>, "agent_processing", AgentProcessingProgress, FALSE)

\* normalize_output applied to the output, or to its own result once more;
\* normalized_outputs collects the result of each pass
normalize_output_call ==
    /\ pc = "normalize"
    /\ Len(normalized_outputs) < MaxPasses
    /\ normalized_outputs' =
          Append(normalized_outputs,
                 normalize_fields(IF normalized_outputs = << >> THEN parsed_outputs[1]
                                  ELSE normalized_outputs[Len(normalized_outputs)]))
    /\ UNCHANGED << unit_vars,
                    job_files, rule_severities, runs, pc, raised, force_include_quarantined,
                    file_tasks, task_shape, call, gathered, completion_order, file_records,
                    parsed_outputs, errors, validation_reports, merged_status, semantic_answers,
                    quarantined_file_ids, synthesis_result, synthesis_inputs, synthesis_calls,
                    markdown_report, current_phase, progress, phase_log, stage_calls,
                    analysis_record, marked_completed, failure_persisted, prev >>

NextNormalize == normalize_output_call

SpecNormalize == InitNormalize /\ [][NextNormalize]_vars

\* ------------------------------------------------------------- retry_with_backoff
\* the results one call of the wrapped function can have: it returns, or it
\* raises an exception of a class listed in retryable_exceptions, or one of
\* another class
CallResults == { "ok", "listed_error", "other_error" }

\* the decorator's arguments: max_retries, initial_delay, backoff_factor, and
\* retryable_exceptions, which is None or a tuple of classes
InitialDelays == { 1, 2 }

BackoffFactors == { 2, 3 }

RetryableExceptions == { "none", "listed" }

\* `if retryable_exceptions and not isinstance(e, retryable_exceptions): raise`
IsRetryable(retryable_exceptions, result) ==
    retryable_exceptions = "none" \/ result = "listed_error"

NextDelayAdditive(delay, backoff_factor) == delay + backoff_factor

\* `delay *= backoff_factor`
NextDelay(delay, backoff_factor) == delay * backoff_factor

InitRetry ==
    /\ InitStage("idle", << >>, << >>, << >>, << >>, << >>, "starting", 0, FALSE)
    /\ \E wrapper \in { "sync", "async" }, n \in 0..MaxRetries, initial_delay \in InitialDelays,
          backoff_factor \in BackoffFactors, retryable_exceptions \in RetryableExceptions :
          retry_call = [ position |-> "calling", wrapper |-> wrapper, max_retries |-> n,
                         initial_delay |-> initial_delay, backoff_factor |-> backoff_factor,
                         retryable_exceptions |-> retryable_exceptions,
                         attempt |-> 0, delay |-> initial_delay, last_exception |-> "none",
                         calls |-> << >>, slept |-> << >>, raised |-> "none" ]
    /\ log_stream = NoLogStream
    /\ job_runs = NoJobRuns

\* one turn of the wrapper's loop `for attempt in range(max_retries + 1)`: the
\* function is called; its value is returned, or its exception is re-raised,
\* or the wrapper sleeps for `delay` and multiplies it
wrapper_attempt(result) ==
    /\ retry_call.position = "calling"
    /\ retry_call.attempt <= retry_call.max_retries
    /\ retry_call' =
          LET called == [ retry_call EXCEPT !.calls = Append(@, result) ] IN
          IF result = "ok" THEN [ called EXCEPT !.position = "returned" ]
          ELSE LET caught == [ called EXCEPT !.last_exception = result ] IN
               IF ~IsRetryable(retry_call.retryable_exceptions, result)
                  \/ retry_call.attempt = retry_call.max_retries
               THEN [ caught EXCEPT !.position = "raised", !.raised = result ]
               ELSE [ caught EXCEPT
                        !.slept = Append(@, retry_call.delay),
                        !.delay = NextDelay(retry_call.delay, retry_call.backoff_factor),
                        !.attempt = @ + 1 ]
    /\ UNCHANGED << log_stream, job_runs >>
    /\ UNCHANGED << job_files, rule_severities, runs, pc, raised, force_include_quarantined,
                    file_tasks, task_shape, call, gathered, completion_order, file_records,
                    parsed_outputs, errors, normalized_outputs, validation_reports,
                    merged_status, semantic_answers, quarantined_file_ids, synthesis_result,
                    synthesis_inputs, synthesis_calls, markdown_report, current_phase,
                    progress, phase_log, stage_calls, analysis_record, marked_completed,
                    failure_persisted, prev >>

\* sync_wrapper: `return func(*args, **kwargs)` and time.sleep
sync_wrapper ==
    /\ retry_call.position = "calling"
    /\ retry_call.wrapper = "sync"
    /\ \E result \in CallResults : wrapper_attempt(result)

\* async_wrapper: `return await func(*args, **kwargs)` and asyncio.sleep
async_wrapper ==
    /\ retry_call.position = "calling"
    /\ retry_call.wrapper = "async"
    /\ \E result \in CallResults : wrapper_attempt(result)

NextRetry ==
    \/ sync_wrapper
    \/ async_wrapper

SpecRetry == InitRetry /\ [][NextRetry]_vars

\* ------------------------------------------------------------- two runs of one job
\* the run started at ingestion and the run the force-include endpoint adds
\* as a background task; both are tasks of the same event loop, each suspended
\* between its nodes
Runs == { "earlier", "replay" }

\* the phases a run in progress can be in
PhasesInProgress ==
    { "starting", "routing", "agent_processing", "normalization", "validation", "synthesis" }

\* the nodes whose exception reaches run_pipeline's except branch
NodesThatRaise == { "routing", "validation", "output" }

\* the objects under reports/{job_id}/ that output_node's exporters upload,
\* each named by the run whose synthesis result it was built from
NoReports == [ analysis_json |-> "none", viz_data |-> "none" ]

InitJobRuns ==
    /\ InitStage("idle", << >>, << >>, << >>, << >>, << >>, "starting", 0, FALSE)
    /\ retry_call = NoRetryCall
    /\ log_stream = NoLogStream
    /\ \E phase \in PhasesInProgress :
          job_runs = [ position |-> [ r \in Runs |-> IF r = "earlier" THEN "running"
                                                     ELSE "requested" ],
                       phase |-> [ r \in Runs |-> IF r = "earlier" THEN phase ELSE "starting" ],
                       force_include_quarantined |-> [ r \in Runs |-> r = "replay" ],
                       marked_completed |-> [ r \in Runs |-> FALSE ],
                       reports |-> NoReports ]

\* what a step of one of the two runs leaves alone
JobRunsFrame ==
    UNCHANGED << retry_call, log_stream, job_files, rule_severities, runs, pc, raised,
                 force_include_quarantined, file_tasks, task_shape, call, gathered,
                 completion_order, file_records, parsed_outputs, errors, normalized_outputs,
                 validation_reports, merged_status, semantic_answers, quarantined_file_ids,
                 synthesis_result, synthesis_inputs, synthesis_calls, markdown_report,
                 current_phase, progress, phase_log, stage_calls, marked_completed,
                 failure_persisted, prev >>

\* run_pipeline up to ainvoke: the record is set to PROCESSING, a failure of
\* that update being swallowed
run_pipeline_begin(r) ==
    /\ job_runs.position[r] = "requested"
    /\ job_runs' = [ job_runs EXCEPT !.position[r] = "running" ]
    /\ \E ok \in BOOLEAN :
          analysis_record' = IF ok THEN [ analysis_record EXCEPT !.status = "PROCESSING" ]
                             ELSE analysis_record
    /\ JobRunsFrame

\* one of the nodes before output_node runs to its end
run_node(r) ==
    /\ job_runs.position[r] = "running"
    /\ NextNode(job_runs.phase[r]) \in PhasesInProgress
    /\ job_runs' = [ job_runs EXCEPT !.phase[r] = NextNode(@) ]
    /\ UNCHANGED analysis_record
    /\ JobRunsFrame

\* output_node of the run: export_analysis_json and build_viz_data upload
\* under the job's keys, then the record is set to COMPLETED
run_output_node(r) ==
    /\ job_runs.position[r] = "running"
    /\ NextNode(job_runs.phase[r]) = "output"
    /\ \E ok \in BOOLEAN :
          /\ analysis_record' = IF ok THEN [ analysis_record EXCEPT !.status = "COMPLETED" ]
                                ELSE analysis_record
          /\ job_runs' = [ job_runs EXCEPT !.position[r] = "done",
                                           !.phase[r] = "output",
                                           !.marked_completed[r] = ok,
                                           !.reports = [ analysis_json |-> r, viz_data |-> r ] ]
    /\ JobRunsFrame

\* a node of the run raises: run_pipeline's except branch sets the record to
\* FAILED and re-raises; output_node may have uploaded analysis.json by then
run_node_raises(r) ==
    /\ job_runs.position[r] = "running"
    /\ NextNode(job_runs.phase[r]) \in NodesThatRaise
    /\ \E ok \in BOOLEAN, len \in ErrorLengths, exported \in BOOLEAN :
          /\ exported => NextNode(job_runs.phase[r]) = "output"
          /\ analysis_record' = IF ok THEN [ status |-> "FAILED", error_len |-> Truncate(len) ]
                                ELSE analysis_record
          /\ job_runs' = [ job_runs EXCEPT
                              !.position[r] = "failed",
                              !.reports.analysis_json = IF exported THEN r ELSE @ ]
    /\ JobRunsFrame

NextJobRuns ==
    \/ \E r \in Runs : run_pipeline_begin(r)
    \/ \E r \in Runs : run_node(r)
    \/ \E r \in Runs : run_output_node(r)
    \/ \E r \in Runs : run_node_raises(r)

SpecJobRuns == InitJobRuns /\ [][NextJobRuns]_vars

\* ------------------------------------------------------------- the log stream
\* _log_buffers[job_id] holds the entries in append order, an entry being named
\* here by its place in the buffer; the job's task appends, the event
\* generator of stream_logs reads, both on the same event loop
LogEntries(n) == [ k \in 1..n |-> k ]

\* logs[last_index:]
LogsSince(logs, last_index) ==
    IF last_index >= Len(logs) THEN << >> ELSE SubSeq(logs, last_index + 1, Len(logs))

InitLogStream ==
    /\ InitStage("idle", << >>, << >>, << >>, << >>, << >>, "starting", 0, FALSE)
    /\ retry_call = NoRetryCall
    /\ job_runs = NoJobRuns
    /\ log_stream = [ position |-> "poll", task |-> "running", buffer |-> LogEntries(1),
                      last_index |-> 0, delivered |-> << >> ]

\* what a step of the job's task or of the event generator leaves alone
LogStreamFrame ==
    UNCHANGED << retry_call, job_runs, job_files, rule_severities, runs, pc, raised,
                 force_include_quarantined, file_tasks, task_shape, call, gathered,
                 completion_order, file_records, parsed_outputs, errors, normalized_outputs,
                 validation_reports, merged_status, semantic_answers, quarantined_file_ids,
                 synthesis_result, synthesis_inputs, synthesis_calls, markdown_report,
                 current_phase, progress, phase_log, stage_calls, marked_completed,
                 failure_persisted, prev >>

\* append_job_log, called by a node or an agent while the pipeline runs
append_job_log ==
    /\ log_stream.task = "running"
    /\ Len(log_stream.buffer) < MaxLogEntries
    /\ log_stream' = [ log_stream EXCEPT !.buffer = Append(@, Len(@) + 1) ]
    /\ UNCHANGED analysis_record
    /\ LogStreamFrame

\* the end of output_node: the record is set to COMPLETED (a failure being
\* swallowed) and "All outputs generated successfully" is appended, with no
\* suspension in between; the node then returns to the graph
output_node_logs ==
    /\ log_stream.task = "running"
    /\ \E ok \in BOOLEAN :
          analysis_record' = IF ok THEN [ analysis_record EXCEPT !.status = "COMPLETED" ]
                             ELSE analysis_record
    /\ log_stream' = [ log_stream EXCEPT !.task = "output_returned",
                                         !.buffer = Append(@, Len(@) + 1) ]
    /\ LogStreamFrame

\* run_pipeline once ainvoke has returned: "Pipeline completed successfully"
run_pipeline_logs_completion ==
    /\ log_stream.task = "output_returned"
    /\ log_stream' = [ log_stream EXCEPT !.task = "finished",
                                         !.buffer = Append(@, Len(@) + 1) ]
    /\ UNCHANGED analysis_record
    /\ LogStreamFrame

\* run_pipeline's except branch: "Pipeline failed" is appended and the record
\* set to FAILED, with no suspension in between
run_pipeline_logs_failure ==
    /\ log_stream.task = "running"
    /\ \E ok \in BOOLEAN, len \in ErrorLengths :
          analysis_record' = IF ok THEN [ status |-> "FAILED", error_len |-> Truncate(len) ]
                             ELSE analysis_record
    /\ log_stream' = [ log_stream EXCEPT !.task = "failed",
                                         !.buffer = Append(@, Len(@) + 1) ]
    /\ LogStreamFrame

\* event_generator, top of the loop: the entries past last_index are sent
event_generator_poll ==
    /\ log_stream.position = "poll"
    /\ log_stream' =
          [ log_stream EXCEPT
              !.position = "check",
              !.delivered = @ \o LogsSince(log_stream.buffer, log_stream.last_index),
              !.last_index = Len(log_stream.buffer) ]
    /\ UNCHANGED analysis_record
    /\ LogStreamFrame

\* event_generator, the status check: on COMPLETED or FAILED the entries past
\* last_index are sent, then the close event, and the loop ends; otherwise, or
\* when reading the record raises, the generator sleeps and polls again
event_generator_check ==
    /\ log_stream.position = "check"
    /\ \E read_raises \in BOOLEAN :
          log_stream' =
              IF ~read_raises /\ analysis_record.status \in { "COMPLETED", "FAILED" }
              THEN [ log_stream EXCEPT
                       !.position = "closed",
                       !.delivered = @ \o LogsSince(log_stream.buffer, log_stream.last_index) ]
              ELSE [ log_stream EXCEPT !.position = "poll" ]
    /\ UNCHANGED analysis_record
    /\ LogStreamFrame

NextLogStream ==
    \/ append_job_log
    \/ output_node_logs
    \/ run_pipeline_logs_completion
    \/ run_pipeline_logs_failure
    \/ event_generator_poll
    \/ event_generator_check

SpecLogStream == InitLogStream /\ [][NextLogStream]_vars

\* ------------------------------------------------------------- properties
\* C1: once validation_node has run, a file's report has status "quarantined"
\* exactly when its merged status is "failed" and force_include_quarantined is
\* false; with the flag true a failed file keeps status "failed" and its id is
\* not in quarantined_file_ids; quarantined_file_ids holds exactly the ids of
\* the reports with status "quarantined".
C1_QuarantineIffFailedAndNotForced ==
    current_phase \in { "validation", "synthesis", "output" } =>
        /\ Len(validation_reports) = Len(normalized_outputs)
        /\ Len(merged_status) = Len(validation_reports)
        /\ \A i \in 1..Len(validation_reports) :
              /\ validation_reports[i].status = "quarantined"
                    <=> (merged_status[i] = "failed" /\ ~force_include_quarantined)
              /\ (force_include_quarantined /\ merged_status[i] = "failed") =>
                    /\ validation_reports[i].status = "failed"
                    /\ validation_reports[i].file_id \notin Range(quarantined_file_ids)
              /\ validation_reports[i].status # "quarantined" =>
                    validation_reports[i].status = merged_status[i]
        /\ Range(quarantined_file_ids) =
              { validation_reports[i].file_id : i \in
                  { j \in 1..Len(validation_reports) :
                      validation_reports[j].status = "quarantined" } }

C1_Witness ==
    /\ current_phase = "validation"
    /\ ~force_include_quarantined
    /\ \E i \in 1..Len(validation_reports) :
          /\ validation_reports[i].status = "quarantined"
          /\ validation_reports[i].file_id \in Range(quarantined_file_ids)
    /\ \E i \in 1..Len(validation_reports) : validation_reports[i].status # "quarantined"

\* C2: the files handed to the Synthesizer are exactly those whose report has
\* status "passed" or "passed_with_warnings", plus those with status "failed"
\* only when force_include_quarantined is true; a quarantined file is never
\* handed over, and with the flag false no report has status "failed".
C2_SynthesisInputsAreAcceptedFiles ==
    current_phase \in { "synthesis", "output" } =>
        LET ids(statuses) ==
                { validation_reports[i].file_id : i \in
                    { j \in 1..Len(validation_reports) :
                        validation_reports[j].status \in statuses } }
        IN  /\ Range(synthesis_inputs) =
                  ids({ "passed", "passed_with_warnings" })
                    \cup (IF force_include_quarantined THEN ids({ "failed" }) ELSE { })
            /\ Range(synthesis_inputs) \cap ids({ "quarantined" }) = { }
            /\ ~force_include_quarantined => ids({ "failed" }) = { }

C2_Witness ==
    /\ current_phase = "synthesis"
    /\ synthesis_inputs # << >>
    /\ \E i \in 1..Len(validation_reports) :
          /\ validation_reports[i].status = "quarantined"
          /\ validation_reports[i].file_id \notin Range(synthesis_inputs)

\* C3: once agent_processing_node has returned, parsed_outputs holds exactly
\* one output for every routed task, whatever failed during its dispatch call.
C3_OneOutputPerTask ==
    current_phase \in { "agent_processing", "normalization", "validation",
                        "synthesis", "output" } =>
        \A t \in 1..Len(file_tasks) :
            Cardinality({ k \in 1..Len(parsed_outputs) :
                            parsed_outputs[k].file_id = file_tasks[t].file_id }) = 1

\* C4: a file whose own dispatch call succeeded is in parsed_outputs with the
\* COMPLETED output its call returned, whatever happened to the calls of the
\* other files of the run.
C4_FaultIsolation ==
    current_phase \in { "agent_processing", "normalization", "validation",
                        "synthesis", "output" } =>
        \A t \in 1..Len(file_tasks) :
            (call[t] = "returned" /\ gathered[t].status = "COMPLETED") =>
                \E k \in 1..Len(parsed_outputs) :
                    /\ parsed_outputs[k] = gathered[t]
                    /\ parsed_outputs[k].file_id = file_tasks[t].file_id
                    /\ parsed_outputs[k].status = "COMPLETED"

C4_Witness ==
    /\ current_phase = "agent_processing"
    /\ \E t, u \in 1..Len(file_tasks) :
          /\ t > u
          /\ call[u] = "raised"
          /\ call[t] = "returned"
          /\ gathered[t].status = "COMPLETED"
          /\ gathered[t].errors = << >>
          /\ \E k \in 1..Len(parsed_outputs) : parsed_outputs[k] = gathered[t]

\* C5: a file whose agent call raised is reported with status FAILED and the
\* error message, never with status COMPLETED.
C5_AgentFailureIsFailed ==
    \A k \in 1..Len(parsed_outputs) :
        "agent_failed" \in Range(parsed_outputs[k].errors) =>
            /\ parsed_outputs[k].status = "FAILED"
            /\ parsed_outputs[k].status # "COMPLETED"

\* C6: a force-include replay starts at synthesis: it makes no routing call,
\* no dispatch call and no validation call.
C6_ReplayStartsAtSynthesis ==
    prev.ran => stage_calls = NoCalls

C8_PhaseOrder ==
    [][ LET order == << "starting", "routing", "agent_processing", "normalization",
                        "validation", "synthesis", "output" >>
            pos(phase) == CHOOSE k \in 1..Len(order) : order[k] = phase
        IN  /\ current_phase \in Range(order)
            /\ runs' # runs => current_phase' = "starting"
            /\ (runs' = runs /\ current_phase' # current_phase) =>
                  /\ pc = "running"
                  /\ pos(current_phase) < Len(order)
                  /\ current_phase' = order[pos(current_phase) + 1]
                  /\ phase_log' = SubSeq(order, 1, pos(current_phase) + 1)
            /\ pc = "failed" /\ runs' = runs => current_phase' = current_phase
      ]_vars

C8_Witness ==
    /\ pc = "done"
    /\ current_phase = "output"
    /\ phase_log = << "starting", "routing", "agent_processing", "normalization",
                      "validation", "synthesis", "output" >>

\* C9: within a run progress never decreases, and in every phase it has that
\* phase's fixed checkpoint (0, 10, 40, 55, 65, 80, 100), for any number of
\* files, zero included, and also when synthesis is skipped.
C9_ProgressCheckpoints ==
    /\ [] ( progress =
              CASE current_phase = "starting" -> 0
                [] current_phase = "routing" -> 10
                [] current_phase = "agent_processing" -> 40
                [] current_phase = "normalization" -> 55
                [] current_phase = "validation" -> 65
                [] current_phase = "synthesis" -> 80
                [] current_phase = "output" -> 100
                [] OTHER -> -1 )
    /\ [][ runs' = runs => progress' >= progress ]_vars

C9_Witness ==
    /\ pc = "done"
    /\ Len(file_tasks) = 0
    /\ synthesis_result = EmptySynthesisResult
    /\ progress = 100

\* C10 (as stated): when a stage raised, the analysis record has status FAILED
\* with an error of at most 500 characters, the exception went to the caller
\* and the run did not mark the job COMPLETED.
C10_FailureIsPersisted ==
    pc = "failed" =>
        /\ analysis_record.status = "FAILED"
        /\ analysis_record.error_len <= 500
        /\ raised
        /\ ~marked_completed

\* C10 (amended): when a stage raised, the exception went to the caller, the
\* run did not mark the job COMPLETED and its phase is not the last one; the
\* analysis record has status FAILED with an error of at most 500 characters
\* when the update that writes it succeeded, and is left as it was otherwise.
C10_FailureIsPersistedWhenUpdateSucceeds ==
    pc = "failed" =>
        /\ raised
        /\ ~marked_completed
        /\ current_phase # "output"
        /\ failure_persisted =>
              /\ analysis_record.status = "FAILED"
              /\ analysis_record.error_len > 0
              /\ analysis_record.error_len <= 500
        /\ ~failure_persisted /\ ~prev.ran =>
              analysis_record \in { [ status |-> "PENDING", error_len |-> 0 ],
                                    [ status |-> "PROCESSING", error_len |-> 0 ] }

C10_Witness ==
    /\ pc = "failed"
    /\ raised
    /\ failure_persisted
    /\ analysis_record = [ status |-> "FAILED", error_len |-> 500 ]


\* C11: a failure confined to one file never makes the job FAILED: no run stops
\* inside agent_processing_node, normalization_node or validation_node, the
\* stages whose work is done file by file.
C11_FileFailureNeverFailsJob ==
    pc = "failed" => current_phase \notin { "routing", "agent_processing", "normalization" }


\* C12: a failure of a persistence call never changes the result of the run: a
\* dispatch call, whose only operation before the download is the update of the
\* file record to PROCESSING, always goes on to the download; it neither
\* returns a FAILED output nor raises at that point.
C12_PersistenceFailureIsSwallowed ==
    [][ runs' = runs =>
          \A i \in DOMAIN call :
              (call[i] = "idle" /\ call'[i] # "idle") => call'[i] = "started" ]_vars


\* C13: when no output is left for synthesis (every file quarantined, or no
\* output at all), synthesis_node makes no call of a synthesis stage and
\* returns a result with no summaries and an explanatory narrative; the run
\* does not fail afterwards, and once output_node has run the report is there
\* and progress is complete.
C13_EmptySynthesisIsStub ==
    ( /\ current_phase \in { "synthesis", "output" }
      /\ \A i \in 1..Len(normalized_outputs) :
            normalized_outputs[i].file_id \in Range(quarantined_file_ids) ) =>
        /\ synthesis_calls = << >>
        /\ synthesis_inputs = << >>
        /\ synthesis_result.doc_summaries = << >>
        /\ synthesis_result.cross_doc_synthesis = "No files available for synthesis."
        /\ pc # "failed"
        /\ current_phase = "output" =>
              /\ markdown_report = "stub_report"
              /\ progress = 100

C13_Witness ==
    /\ pc = "done"
    /\ current_phase = "output"
    /\ normalized_outputs # << >>
    /\ \A i \in 1..Len(normalized_outputs) :
          normalized_outputs[i].file_id \in Range(quarantined_file_ids)
    /\ synthesis_calls = << >>
    /\ synthesis_result = EmptySynthesisResult


\* C14: the stages of run_synthesis are called strictly in order: the
\* cross-document synthesis only when every document has its summary, the
\* narrative insights only when the cross-document narrative exists, the
\* structured insights only when the narrative insights exist; a stage whose
\* call fails leaves a stub (the default object for the structured insights),
\* and run_synthesis returns only after every stage was called.
C14_StagesInOrder ==
    LET n == Len(synthesis_inputs)
        order == [ k \in 1..(n + 3) |->
                     IF k <= n THEN "summarize_document"
                     ELSE IF k = n + 1 THEN "synthesize_across_documents"
                     ELSE IF k = n + 2 THEN "extract_insights"
                     ELSE "extract_structured_insights" ]
    IN  /\ Len(synthesis_calls) <= n + 3
        /\ synthesis_calls = SubSeq(order, 1, Len(synthesis_calls))
        /\ Len(synthesis_calls) > n =>
              /\ Len(synthesis_result.doc_summaries) = n
              /\ synthesis_result.cross_doc_synthesis \in { "narrative", "synthesis_failed" }
        /\ Len(synthesis_calls) > n + 1 =>
              synthesis_result.insights_markdown \in { "insights", "insights_failed" }
        /\ Len(synthesis_calls) > n + 2 =>
              synthesis_result.structured_insights \in { "structured", "default" }
        /\ Len(synthesis_calls) <= n => synthesis_result.cross_doc_synthesis = ""
        /\ Len(synthesis_calls) <= n + 1 => synthesis_result.insights_markdown = ""
        /\ Len(synthesis_calls) <= n + 2 => synthesis_result.structured_insights = "unset"
        /\ pc = "synthesis_returned" <=> synthesis_calls = order

C14_Witness ==
    /\ pc = "synthesis_returned"
    /\ Len(synthesis_inputs) >= 2
    /\ synthesis_result.cross_doc_synthesis = "synthesis_failed"
    /\ synthesis_result.insights_markdown = "insights"
    /\ synthesis_result.structured_insights = "default"
    /\ Len(synthesis_calls) = Len(synthesis_inputs) + 3

\* C15: doc_summaries has exactly one entry per synthesis input, in the order
\* of the inputs, whichever summarization calls fail: a failed call leaves a
\* placeholder carrying the error for its file, every other file has its summary.
C15_OneSummaryPerInput ==
    LET done == Min(Len(synthesis_calls), Len(synthesis_inputs))
    IN  /\ Len(synthesis_result.doc_summaries) = done
        /\ \A k \in 1..Len(synthesis_result.doc_summaries) :
              /\ k <= Len(synthesis_inputs)
              /\ synthesis_result.doc_summaries[k].file_id = synthesis_inputs[k]
              /\ synthesis_result.doc_summaries[k].summary =
                    IF synthesis_result.doc_summaries[k].error THEN "summary_failed"
                    ELSE "summary"
        /\ pc = "synthesis_returned" =>
              Len(synthesis_result.doc_summaries) = Len(synthesis_inputs)

C15_Witness ==
    /\ pc = "synthesis_returned"
    /\ Len(synthesis_inputs) = 2
    /\ Len(synthesis_result.doc_summaries) = 2
    /\ synthesis_result.doc_summaries[1].error
    /\ ~synthesis_result.doc_summaries[2].error
    /\ synthesis_result.doc_summaries[2].summary = "summary"

\* C16: for every combination of findings the merged status is failed when the
\* rule track has an error, else passed_with_warnings when the rule track has
\* a warning or the semantic track reports a taxonomy issue, else passed;
\* plausibility flags never enter
C16_MergeRule ==
    /\ Len(merged_status) = Len(validation_reports)
    /\ \A i \in 1..Len(validation_reports) :
          LET r == validation_reports[i]
          IN  /\ r.rule_errors # << >> => merged_status[i] = "failed"
              /\ (r.rule_errors = << >> /\ (r.rule_warnings # << >> \/ r.taxonomy_issues # << >>))
                    => merged_status[i] = "passed_with_warnings"
              /\ (r.rule_errors = << >> /\ r.rule_warnings = << >> /\ r.taxonomy_issues = << >>)
                    => merged_status[i] = "passed"
              /\ r.status = IF merged_status[i] = "failed" /\ ~force_include_quarantined
                            THEN "quarantined" ELSE merged_status[i]

\* a file whose only finding is a plausibility flag, and a file with a
\* taxonomy issue and nothing from the rule track
C16_Witness ==
    /\ \E i \in 1..Len(validation_reports) :
          /\ validation_reports[i].plausibility_flags # << >>
          /\ validation_reports[i].rule_errors = << >>
          /\ validation_reports[i].rule_warnings = << >>
          /\ validation_reports[i].taxonomy_issues = << >>
          /\ merged_status[i] = "passed"
    /\ \E i \in 1..Len(validation_reports) :
          /\ validation_reports[i].taxonomy_issues # << >>
          /\ validation_reports[i].rule_errors = << >>
          /\ validation_reports[i].rule_warnings = << >>
          /\ merged_status[i] = "passed_with_warnings"

\* C17: a file whose semantic call failed or answered something unparseable
\* still has its report, with no semantic finding of the failed part, rating
\* Poor, confidence 0 and the status of the rule track alone; the other files
\* are validated too
C17_SemanticFailureIsEmptyContribution ==
    /\ Len(semantic_answers) = Len(validation_reports)
    /\ pc = "validation_returned" => Len(validation_reports) = Len(normalized_outputs)
    /\ \A i \in 1..Len(validation_reports) :
          LET r == validation_reports[i]
          IN  /\ r.file_id = normalized_outputs[i].file_id
              /\ semantic_answers[i].taxonomy.kind # "object" =>
                    /\ r.taxonomy_issues = << >>
                    /\ r.data_quality_rating = "Poor"
                    /\ r.llm_confidence_score = 0
                    /\ merged_status[i] =
                          IF r.rule_errors # << >> THEN "failed"
                          ELSE IF r.rule_warnings # << >> THEN "passed_with_warnings"
                          ELSE "passed"
              /\ semantic_answers[i].plausibility.kind # "object" =>
                    r.plausibility_flags = << >>

\* the semantic track failed for the first file and answered for the second
C17_Witness ==
    /\ pc = "validation_returned"
    /\ Len(validation_reports) = 2
    /\ semantic_answers[1].taxonomy.kind = "raise"
    /\ semantic_answers[1].plausibility.kind = "unparsed"
    /\ validation_reports[1].rule_warnings # << >>
    /\ merged_status[1] = "passed_with_warnings"
    /\ semantic_answers[2].taxonomy.kind = "object"
    /\ validation_reports[2].taxonomy_issues # << >>

\* C18: a routed PDF has the scanned agent when it is fully scanned, else the
\* hybrid agent when it has images or tables, else the text agent when it has
\* a text layer, else (its structure being unknown too) the hybrid agent
C18_PdfPriority ==
    pc = "routed" =>
        \A i \in 1..Len(file_tasks) :
            LET task == file_tasks[i]
                hints == task.pdf_structure
            IN  task.file_type = "PDF" =>
                    task.agent =
                        IF hints.present /\ hints.is_scanned THEN "pdf_scanned_agent"
                        ELSE IF hints.present /\ (hints.has_embedded_images
                                                  \/ hints.has_tables_heuristic)
                             THEN "pdf_hybrid_agent"
                        ELSE IF hints.present /\ hints.has_text_layer THEN "pdf_text_agent"
                        ELSE "pdf_hybrid_agent"

\* C19: routing never raises, so no run fails before its routing phase is
\* entered
C19_RoutingNeverRaises ==
    ~(pc = "failed" /\ current_phase = "starting")

\* C20: once routing has returned, every task carries an agent of the
\* dispatcher's registry
C20_RoutedAgentsAreRegistered ==
    current_phase # "starting" =>
        \A i \in 1..Len(file_tasks) : file_tasks[i].agent \in AGENT_CLASSES

\* C21: a second pass of normalize_output leaves the content, the word count
\* and the confidence of the first pass as they are
C21_NormalizeIsIdempotent ==
    \A k \in 2..Len(normalized_outputs) :
        /\ normalized_outputs[k].markdown = normalized_outputs[k - 1].markdown
        /\ normalized_outputs[k].word_count = normalized_outputs[k - 1].word_count
        /\ normalized_outputs[k].confidence = normalized_outputs[k - 1].confidence

\* C22: a normalized output has a confidence between 0 and 1 and the word
\* count of its normalized content
C22_ConfidenceClampedAndWordsCounted ==
    \A k \in 1..Len(normalized_outputs) :
        /\ normalized_outputs[k].confidence >= 0
        /\ normalized_outputs[k].confidence <= 100
        /\ normalized_outputs[k].word_count = word_count(normalized_outputs[k].markdown)

\* the first rows of the tables of a content
TableFirstRows(lines) ==
    { i \in 1..Len(lines) : IsTableRow(lines[i]) /\ (i = 1 \/ ~IsTableRow(lines[i - 1])) }

\* the first rows directly followed by a data row
RowsLackingSeparator(lines) ==
    { i \in TableFirstRows(lines) :
        i + 1 <= Len(lines) /\ IsTableRow(lines[i + 1]) /\ ~IsSeparatorRow(lines[i + 1]) }

C24_AttributedByIdentifier ==
    /\ \A i \in DOMAIN call :
          call[i] \in { "returned", "raised" } => gathered[i].file_id = file_tasks[i].file_id
    /\ current_phase \notin { "starting", "routing" } =>
          /\ parsed_outputs = SelectSeq(gathered, LAMBDA o : o.status # "EXCEPTION")
          /\ \A k \in 1..Len(parsed_outputs), l \in 1..Len(parsed_outputs) :
                k < l => parsed_outputs[k].file_id < parsed_outputs[l].file_id
          /\ \A e \in 1..Len(errors) :
                \E i \in DOMAIN call :
                    call[i] = "raised" /\ file_tasks[i].file_id = errors[e].file_id
          /\ \A k \in 1..Len(normalized_outputs) :
                normalized_outputs[k].file_id = parsed_outputs[k].file_id
          /\ \A k \in 1..Len(validation_reports) :
                validation_reports[k].file_id = normalized_outputs[k].file_id
          /\ \A k \in 1..Len(synthesis_inputs), l \in 1..Len(synthesis_inputs) :
                k < l => synthesis_inputs[k] < synthesis_inputs[l]

\* the call of the second task ended before the call of the first, and the
\* outputs were collected
C24_Witness ==
    /\ current_phase = "agent_processing"
    /\ completion_order = << 2, 1 >>
    /\ Len(parsed_outputs) = 2
    /\ parsed_outputs[1].file_id = 1
    /\ parsed_outputs[1].markdown # parsed_outputs[2].markdown

\* C27: while the extraction call of a file runs its record says PROCESSING,
\* and within one run a record that says FAILED is not set to COMPLETED
C27_FileStatusIsTerminal ==
    /\ [](\A i \in DOMAIN call :
            call[i] = "started" => file_records[file_tasks[i].file_id] = "PROCESSING")
    /\ [][ runs' = runs =>
             \A f \in DOMAIN file_records :
                 file_records[f] = "FAILED" => file_records'[f] # "COMPLETED" ]_vars

\* C26: once validation_node has returned, no later stage of the run changes
\* normalized_outputs or a field of one of its records
C26_OutputsFrozenAfterValidation ==
    [][ (current_phase \in { "validation", "synthesis", "output" } /\ runs' = runs) =>
            normalized_outputs' = normalized_outputs ]_vars

\* initial_delay x backoff_factor^(k-1)
RECURSIVE BackoffDelay(_, _, _)
BackoffDelay(initial_delay, backoff_factor, k) ==
    IF k <= 1 THEN initial_delay
    ELSE backoff_factor * BackoffDelay(initial_delay, backoff_factor, k - 1)

\* C28: a function wrapped by retry_with_backoff(max_retries = n) is called at
\* most n + 1 times; its first success is returned and no call follows it; an
\* exception of a class outside retryable_exceptions, when that tuple is
\* given, is raised at once; after n + 1 failed calls the last exception is
\* raised; the wrapper sleeps initial_delay x backoff_factor^(k-1) before the
\* k-th retry; the sync and the async wrapper do the same.
C28_RetryWithBackoff ==
    retry_call.position # "none" =>
        LET r == retry_call
            made == Len(r.calls)
            fatal(result) == result = "other_error" /\ r.retryable_exceptions = "listed"
        IN  /\ made <= r.max_retries + 1
            /\ \A k \in 1..(made - 1) : r.calls[k] # "ok" /\ ~fatal(r.calls[k])
            /\ r.position = "calling" => made <= r.max_retries
            /\ r.position = "returned" <=> (made > 0 /\ r.calls[made] = "ok")
            /\ r.position = "raised" <=>
                  /\ made > 0
                  /\ r.calls[made] # "ok"
                  /\ fatal(r.calls[made]) \/ made = r.max_retries + 1
            /\ r.position = "raised" => r.raised = r.calls[made]
            /\ r.position # "raised" => r.raised = "none"
            /\ Len(r.slept) = (IF r.position = "calling" THEN made ELSE made - 1)
            /\ \A k \in 1..Len(r.slept) :
                  r.slept[k] = BackoffDelay(r.initial_delay, r.backoff_factor, k)

\* the async wrapper gave up after max_retries + 1 failed calls, having slept
\* twice, the second time longer than the first, and raised the last exception,
\* which differs from the first
C28_Witness ==
    /\ retry_call.position = "raised"
    /\ retry_call.wrapper = "async"
    /\ retry_call.retryable_exceptions = "none"
    /\ Len(retry_call.calls) = retry_call.max_retries + 1
    /\ Len(retry_call.slept) = MaxRetries
    /\ retry_call.slept[MaxRetries] > retry_call.slept[1]
    /\ retry_call.calls[1] = "listed_error"
    /\ retry_call.raised = "other_error"

\* C30: every check of RuleValidator reports a failure with severity "warning",
\* never "error", so the merged status of a file is always "passed" or
\* "passed_with_warnings": no report has status "failed" or "quarantined",
\* quarantined_file_ids stays empty, and every normalized output is handed to
\* synthesis.
C30_RuleTrackNeverFailsAFile ==
    /\ \A i \in 1..Len(merged_status) :
          merged_status[i] \in { "passed", "passed_with_warnings" }
    /\ \A i \in 1..Len(validation_reports) :
          /\ validation_reports[i].status \notin { "failed", "quarantined" }
          /\ validation_reports[i].rule_errors = << >>
    /\ quarantined_file_ids = << >>
    /\ current_phase \in { "synthesis", "output" } =>
          synthesis_inputs =
              [ k \in 1..Len(normalized_outputs) |-> normalized_outputs[k].file_id ]

\* a run reached synthesis with a file the rule track found fault with: its
\* report carries a rule warning and the file is among the synthesis inputs
C30_Witness ==
    /\ current_phase = "synthesis"
    /\ ~force_include_quarantined
    /\ \E i \in 1..Len(validation_reports) :
          /\ validation_reports[i].rule_warnings # << >>
          /\ merged_status[i] = "passed_with_warnings"
          /\ validation_reports[i].file_id \in Range(synthesis_inputs)

\* C25: when a force-include replay is requested while an earlier run of the
\* job is in progress, then whatever the interleaving of the two runs, once
\* both have finished and marked the job, the persisted status is COMPLETED
\* and the persisted report objects are those built from the replay's
\* synthesis result.
C25_ReplaySupersedesEarlierRun ==
    (job_runs # NoJobRuns
        /\ \A r \in Runs : job_runs.position[r] = "done" /\ job_runs.marked_completed[r]) =>
        /\ analysis_record.status = "COMPLETED"
        /\ job_runs.reports = [ analysis_json |-> "replay", viz_data |-> "replay" ]

\* C29: a client of the log stream receives every entry appended to the job's
\* log exactly once, in append order, before the close event, whatever the
\* interleaving of appends and polls, entries appended after the job status
\* was persisted as COMPLETED or FAILED included.
C29_StreamDeliversEveryEntry ==
    log_stream # NoLogStream =>
        /\ Len(log_stream.delivered) <= Len(log_stream.buffer)
        /\ log_stream.delivered = SubSeq(log_stream.buffer, 1, Len(log_stream.delivered))
        /\ (log_stream.position = "closed" /\ log_stream.task \in { "finished", "failed" }) =>
              log_stream.delivered = log_stream.buffer

====
